---- MODULE Spec2Model ----
(***************************************************************************)
(* Mattermost Toolchain Poster (src/src/index.ts, v1.3.14) as a state      *)
(* machine: the account registry, the sender resolver, the halt gate and   *)
(* the three event handlers, with the posts they leave in flight.          *)
(*                                                                         *)
(* Strings are TLA+ strings.  JavaScript `undefined` is written "" : every *)
(* test the code applies to an optional string is a truthiness test or a   *)
(* `??`, and no input of the model is the empty string itself.             *)
(***************************************************************************)
EXTENDS Integers, Sequences, FiniteSets, TLC

VARIABLES
    config,          \* the configuration handed to register()
    botAccounts,     \* Map<string, {token, url}> in insertion order
    sessionSenders,  \* Map<string, {senderId, timestamp}>
    stoppedSessions, \* Set<string>
    pendingCalls,    \* Map<toolCallId, {postId, toolName, startTime}>
    lastSessionKey,  \* session key of the latest before_tool_call
    now,             \* Date.now(), in milliseconds since the start
    inflight,        \* posts awaiting the chat backend's answer
    running,         \* host: tool calls let through, result not yet persisted
    last,            \* the latest handler invocation and what it decided
    done,            \* how the latest handler that awaited a post completed
    events,          \* number of host events and clock advances so far
    interrupter,     \* the interrupter plugin: its stoppedSessions, its latest
                     \* handler invocation
    mmClient         \* one MattermostClient: its credentials, its
                     \* dmChannelCache, its latest method call

vars ==
    <<config, botAccounts, sessionSenders, stoppedSessions, pendingCalls,
      lastSessionKey, now, inflight, running, last, done, events,
      interrupter, mmClient>>

-----------------------------------------------------------------------------
(* Bounds of the exploration *)

\* host events (messages, commands, tool calls) and clock advances explored
MaxEvents ==
    3

\* posts awaiting an answer at the same time
MaxInFlight ==
    1

-----------------------------------------------------------------------------
(* String helpers: String.prototype.startsWith / includes *)

undefined ==
    ""

StartsWith(s, p) ==
    Len(s) >= Len(p) /\ SubSeq(s, 1, Len(p)) = p

Includes(s, p) ==
    \E i \in 1..(Len(s) - Len(p) + 1) : SubSeq(s, i, i + Len(p) - 1) = p

\* the capture group ([^:]+) of a regular expression anchored at ^prefix
MatchAfter(s, prefix) ==
    IF ~StartsWith(s, prefix) THEN undefined
    ELSE LET from == Len(prefix) + 1
             stops == {j \in from..Len(s) : SubSeq(s, j, j) = ":"}
             upto == IF stops = {} THEN Len(s)
                     ELSE (CHOOSE j \in stops : \A k \in stops : j <= k) - 1
         IN  IF upto < from THEN undefined ELSE SubSeq(s, from, upto)

extractAgentFromSessionKey(sessionKey) ==
    IF sessionKey = undefined THEN undefined
    ELSE IF MatchAfter(sessionKey, "agent:") # undefined
         THEN MatchAfter(sessionKey, "agent:")
         ELSE MatchAfter(sessionKey, "session:agent:")

-----------------------------------------------------------------------------
(* Insertion-ordered Map<string, V> as a sequence of <<key, value>> *)

MapHas(m, k) ==
    \E i \in 1..Len(m) : m[i][1] = k

MapGet(m, k, dflt) ==
    IF MapHas(m, k) THEN m[CHOOSE i \in 1..Len(m) : m[i][1] = k][2] ELSE dflt

MapSet(m, k, v) ==
    IF MapHas(m, k)
    THEN [i \in 1..Len(m) |-> IF m[i][1] = k THEN <<k, v>> ELSE m[i]]
    ELSE Append(m, <<k, v>>)

NoAccount ==
    [token |-> undefined, url |-> undefined]

Or(a, b) ==
    IF a # undefined THEN a ELSE b

-----------------------------------------------------------------------------
(* register(): the account registry, src/src/index.ts 580-608 *)

\* one entry of channels.mattermost.accounts, lines 584-597
AddAccount(m, accountName, account, defaultBaseUrl) ==
    IF account.botToken = undefined THEN m
    ELSE LET value == [token |-> account.botToken,
                       url |-> Or(account.baseUrl, defaultBaseUrl)]
             byKey == MapSet(m, accountName, value)
         IN  IF account.name # undefined THEN MapSet(byKey, account.name, value)
             ELSE byKey

RECURSIVE AddAccounts(_, _, _)
AddAccounts(m, accounts, defaultBaseUrl) ==
    IF accounts = << >> THEN m
    ELSE AddAccounts(AddAccount(m, Head(accounts).key, Head(accounts), defaultBaseUrl),
                     Tail(accounts), defaultBaseUrl)

\* lines 580-608: named accounts first, then the plugin/env token under "default"
BuildBotAccounts(cfg) ==
    LET named == AddAccounts(<< >>, cfg.accounts, cfg.defaultBaseUrl)
    IN  IF cfg.envToken # undefined
        THEN MapSet(named, "default",
                    [token |-> cfg.envToken, url |-> cfg.defaultBaseUrl])
        ELSE named

\* variant: the hooks are registered whatever the configuration holds
RegisteredAlways ==
    TRUE

\* line 664: register() returns before any api.on / registerCommand
Registered ==
    ~(Len(botAccounts) = 0 /\ config.webhookUrl = undefined)

\* variant: nothing is excluded
excludedToolsNone ==
    {}

\* line 671
excludedTools ==
    config.excludeTools

-----------------------------------------------------------------------------
(* getClient, lines 628-661 *)

NoClient ==
    [isNull |-> TRUE, webhookUrl |-> undefined, baseUrl |-> undefined,
     botToken |-> undefined]

\* variant: the fallback takes the first inserted account, "default" or not
selectAccountFirstInserted(sessionKey) ==
    LET agentId == extractAgentFromSessionKey(sessionKey)
        byAgent == IF agentId # undefined
                   THEN MapGet(botAccounts, agentId, NoAccount) ELSE NoAccount
        fallback == IF Len(botAccounts) > 0 THEN botAccounts[1][2] ELSE NoAccount
    IN  IF byAgent # NoAccount
        THEN [account |-> byAgent, selectedAccountName |-> agentId]
        ELSE [account |-> fallback,
              selectedAccountName |->
                  IF fallback # NoAccount THEN "default" ELSE "none"]

\* lines 630-640: the account for the agent named in the session key
selectAccount(sessionKey) ==
    LET agentId == extractAgentFromSessionKey(sessionKey)
        byAgent == IF agentId # undefined
                   THEN MapGet(botAccounts, agentId, NoAccount) ELSE NoAccount
        fallback == IF MapHas(botAccounts, "default")
                    THEN MapGet(botAccounts, "default", NoAccount)
                    ELSE IF Len(botAccounts) > 0 THEN botAccounts[1][2]
                    ELSE NoAccount
    IN  IF byAgent # NoAccount
        THEN [account |-> byAgent, selectedAccountName |-> agentId]
        ELSE [account |-> fallback,
              selectedAccountName |->
                  IF fallback # NoAccount THEN "default" ELSE "none"]

getClient(sessionKey) ==
    LET sel == selectAccount(sessionKey)
        account == sel.account
    IN  IF account.token = undefined /\ config.webhookUrl = undefined
        THEN [client |-> NoClient, accountName |-> sel.selectedAccountName]
        ELSE [client |-> [isNull |-> FALSE,
                          webhookUrl |-> config.webhookUrl,
                          baseUrl |-> Or(account.url, config.defaultBaseUrl),
                          botToken |-> account.token],
              accountName |-> sel.selectedAccountName]

\* MattermostClient.hasRestApi, src/src/mattermost.ts 210-212
hasRestApi(client) ==
    client.baseUrl # undefined /\ client.botToken # undefined

-----------------------------------------------------------------------------
(* The sender table, lines 426-428, and its two inline resolvers *)

NoEntry ==
    [senderId |-> undefined, timestamp |-> 0]

\* Map.get on sessionSenders; the key "" (an undefined session key) is never set
SendersGet(key) ==
    IF key \in DOMAIN sessionSenders THEN sessionSenders[key] ELSE NoEntry

SendersSet(m, key, entry) ==
    [k \in DOMAIN m \cup {key} |-> IF k = key THEN entry ELSE m[k]]

\* 30 * 60 * 1000, lines 805 and 907
FreshWindow ==
    30 * 60 * 1000

\* lines 806 and 908
isSubagent(sessionKey) ==
    Includes(sessionKey, ":subagent:") \/ Includes(sessionKey, ":cron:")

\* variant: the freshness window applied to the exact session link too
resolveSenderStaleSession(sessionKey, accountName) ==
    LET sessionEntry == SendersGet(sessionKey)
        accountEntry == SendersGet(accountName)
    IN  IF sessionEntry # NoEntry /\ (now - sessionEntry.timestamp) < FreshWindow
        THEN sessionEntry.senderId
        ELSE IF accountEntry # NoEntry
                /\ (now - accountEntry.timestamp) < FreshWindow
                /\ ~isSubagent(sessionKey)
             THEN accountEntry.senderId
             ELSE undefined

\* variant: a link exactly as old as the window still counts as fresh
resolveSenderInclusiveWindow(sessionKey, accountName) ==
    LET sessionEntry == SendersGet(sessionKey)
        accountEntry == SendersGet(accountName)
    IN  IF sessionEntry # NoEntry THEN sessionEntry.senderId
        ELSE IF accountEntry # NoEntry
                /\ (now - accountEntry.timestamp) <= FreshWindow
                /\ ~isSubagent(sessionKey)
             THEN accountEntry.senderId
             ELSE undefined

\* variant: a session key seen by the previous tool call is not looked up again
resolveSenderOncePerSession(sessionKey, accountName) ==
    LET sessionEntry == SendersGet(sessionKey)
        accountEntry == SendersGet(accountName)
        isFresh == (now - accountEntry.timestamp) < FreshWindow
    IN  IF sessionKey = lastSessionKey THEN undefined
        ELSE IF sessionEntry # NoEntry THEN sessionEntry.senderId
        ELSE IF accountEntry # NoEntry /\ isFresh /\ ~isSubagent(sessionKey)
             THEN accountEntry.senderId
             ELSE undefined

\* before_tool_call, lines 793-813
resolveSender(sessionKey, accountName) ==
    LET sessionEntry == SendersGet(sessionKey)
        accountEntry == SendersGet(accountName)
        isFresh == (now - accountEntry.timestamp) < FreshWindow
    IN  IF sessionEntry # NoEntry THEN sessionEntry.senderId
        ELSE IF accountEntry # NoEntry /\ isFresh /\ ~isSubagent(sessionKey)
             THEN accountEntry.senderId
             ELSE undefined

\* variant: the result's fallback forgets the subagent/cron markers
resolveResultSenderNoMarker(sessionKey, accountName) ==
    LET sessionEntry == SendersGet(sessionKey)
        accountEntry == SendersGet(accountName)
        isFresh == (now - accountEntry.timestamp) < FreshWindow
    IN  IF sessionEntry # NoEntry THEN sessionEntry.senderId
        ELSE IF accountEntry # NoEntry /\ isFresh THEN accountEntry.senderId
        ELSE undefined

\* postResult, lines 898-913
resolveResultSender(sessionKey, accountName) ==
    LET sessionEntry == SendersGet(sessionKey)
        accountEntry == SendersGet(accountName)
        isFresh == (now - accountEntry.timestamp) < FreshWindow
    IN  IF sessionEntry # NoEntry THEN sessionEntry.senderId
        ELSE IF accountEntry # NoEntry
             THEN (IF isFresh /\ ~isSubagent(sessionKey)
                   THEN accountEntry.senderId ELSE undefined)
             ELSE undefined

-----------------------------------------------------------------------------
(* What the host saw of the latest handler invocation *)

NoLast ==
    [op |-> "none", senderId |-> undefined, sessionKey |-> undefined,
     accountName |-> undefined, toolName |-> undefined, content |-> undefined,
     block |-> FALSE, blockReason |-> undefined, route |-> undefined,
     text |-> undefined, origin |-> undefined, botToken |-> undefined,
     log |-> undefined, at |-> 0]

\* the latest completion of a handler that awaited a post: its kind, the
\* reply of a command, or that its promise rejected into the host
NoDone ==
    [op |-> "none", threw |-> FALSE, text |-> undefined]

-----------------------------------------------------------------------------
(* message_received, lines 721-758 *)

\* variant: the normalized session key is not written
recordSenderLiteralOnly(senderId, sessionKey, accountId) ==
    LET entry == [senderId |-> senderId, timestamp |-> now]
        m0 == sessionSenders
        m1 == IF sessionKey # undefined
              THEN SendersSet(m0, sessionKey, entry) ELSE m0
        m3 == IF accountId # undefined
              THEN SendersSet(SendersSet(m1, accountId, entry),
                              "agent:" \o accountId \o ":main", entry)
              ELSE m1
    IN  IF senderId # undefined THEN m3 ELSE m0

\* variant: a message without sender id is recorded too
recordSenderAnonymous(senderId, sessionKey, accountId) ==
    LET entry == [senderId |-> senderId, timestamp |-> now]
        m0 == sessionSenders
        m1 == IF sessionKey # undefined
              THEN SendersSet(m0, sessionKey, entry) ELSE m0
        m2 == IF sessionKey # undefined /\ ~StartsWith(sessionKey, "agent:")
              THEN SendersSet(m1, "agent:" \o sessionKey, entry) ELSE m1
    IN  IF accountId # undefined
        THEN SendersSet(SendersSet(m2, accountId, entry),
                        "agent:" \o accountId \o ":main", entry)
        ELSE m2

\* variant: a message evicts the links that are a full window old
recordSenderEvicting(senderId, sessionKey, accountId) ==
    LET entry == [senderId |-> senderId, timestamp |-> now]
        kept == {k \in DOMAIN sessionSenders :
                    now - sessionSenders[k].timestamp < FreshWindow}
        m0 == [k \in kept |-> sessionSenders[k]]
        m1 == IF sessionKey # undefined
              THEN SendersSet(m0, sessionKey, entry) ELSE m0
        m2 == IF sessionKey # undefined /\ ~StartsWith(sessionKey, "agent:")
              THEN SendersSet(m1, "agent:" \o sessionKey, entry) ELSE m1
        m3 == IF accountId # undefined
              THEN SendersSet(SendersSet(m2, accountId, entry),
                              "agent:" \o accountId \o ":main", entry)
              ELSE m2
    IN  IF senderId # undefined THEN m3 ELSE sessionSenders

\* lines 731-749: the link is written under every key of the message
recordSender(senderId, sessionKey, accountId) ==
    LET entry == [senderId |-> senderId, timestamp |-> now]
        m0 == sessionSenders
        m1 == IF sessionKey # undefined
              THEN SendersSet(m0, sessionKey, entry) ELSE m0
        m2 == IF sessionKey # undefined /\ ~StartsWith(sessionKey, "agent:")
              THEN SendersSet(m1, "agent:" \o sessionKey, entry) ELSE m1
        m3 == IF accountId # undefined
              THEN SendersSet(SendersSet(m2, accountId, entry),
                              "agent:" \o accountId \o ":main", entry)
              ELSE m2
    IN  IF senderId # undefined THEN m3 ELSE m0

\* variant: the auto-resume is missing
autoResumeNever(senderId, content) ==
    stoppedSessions

\* variant: the content of the message is not looked at
autoResumeOnAnyContent(senderId, content) ==
    IF senderId # undefined THEN stoppedSessions \ {senderId}
    ELSE stoppedSessions

\* lines 751-757: a new user message clears the sender's halt
autoResume(senderId, content) ==
    IF senderId # undefined /\ ~StartsWith(content, "/halt")
       /\ ~StartsWith(content, "/unhalt")
    THEN stoppedSessions \ {senderId}
    ELSE stoppedSessions

MessageReceived(senderId, content, metaSessionKey, conversationId, accountId) ==
    LET sessionKey == Or(metaSessionKey, conversationId)
    IN  /\ Registered
        /\ events < MaxEvents
        /\ events' = events + 1
        /\ sessionSenders' = recordSender(senderId, sessionKey, accountId)
        /\ stoppedSessions' = autoResume(senderId, content)
        /\ last' = [NoLast EXCEPT !.op = "message_received",
                                  !.senderId = senderId,
                                  !.sessionKey = sessionKey,
                                  !.accountName = accountId,
                                  !.content = content,
                                  !.log = IF autoResume(senderId, content)
                                             # stoppedSessions
                                          THEN "Session auto-resumed on new message"
                                          ELSE undefined,
                                  !.at = now]
        /\ UNCHANGED <<mmClient, interrupter, config, botAccounts, pendingCalls, lastSessionKey, now,
                       inflight, running, done>>

-----------------------------------------------------------------------------
(* /halt and /unhalt, lines 680-718 *)

HaltText ==
    "Agent halted. Tool calls will be blocked until you send a new message."

ResumedText ==
    "Agent resumed. Tool calls are now enabled."

NotHaltedText ==
    "Agent is not currently halted."

BlockReason ==
    "Agent interaction halted via /halt command."

\* variant: the commands are registered whatever the toggle says
CommandsRegisteredAlways ==
    Registered

\* line 680; the host offers registerCommand
CommandsRegistered ==
    Registered /\ config.enableHaltCommands

\* lines 687 and 707
commandKey(ctxSenderId) ==
    IF ctxSenderId # undefined THEN ctxSenderId ELSE "default"

\* variant: a second /halt lifts the halt
haltedToggle(sessionKey) ==
    IF sessionKey \in stoppedSessions THEN stoppedSessions \ {sessionKey}
    ELSE stoppedSessions \cup {sessionKey}

\* line 688: stoppedSessions.add
halted(sessionKey) ==
    stoppedSessions \cup {sessionKey}

\* lines 686-699; the reply follows the awaited direct message
Halt(ctxSenderId) ==
    LET client == getClient(undefined).client
        notify == ~client.isNull /\ hasRestApi(client) /\ ctxSenderId # undefined
        task == [kind |-> "halt", stage |-> "first", dest |-> ctxSenderId,
                 toolName |-> undefined, sessionKey |-> undefined,
                 origin |-> undefined, at |-> 0]
    IN  /\ CommandsRegistered
        /\ events < MaxEvents
        /\ events' = events + 1
        /\ stoppedSessions' = halted(commandKey(ctxSenderId))
        /\ IF notify
           THEN /\ Cardinality(inflight) < MaxInFlight
                /\ task \notin inflight
                /\ inflight' = inflight \cup {task}
           ELSE inflight' = inflight
        /\ last' = [NoLast EXCEPT !.op = "halt",
                                  !.senderId = ctxSenderId,
                                  !.route = IF notify THEN "dm" ELSE undefined,
                                  !.text = IF notify THEN undefined ELSE HaltText,
                                  !.at = now]
        /\ UNCHANGED <<mmClient, interrupter, config, botAccounts, sessionSenders, pendingCalls,
                       lastSessionKey, now, running, done>>

\* variant: the reply does not look at the halt set
unhaltReplyResumed(sessionKey) ==
    ResumedText

\* lines 708-713: the reply states what the command found
unhaltReply(sessionKey) ==
    IF sessionKey \in stoppedSessions THEN ResumedText ELSE NotHaltedText

\* lines 706-714
Unhalt(ctxSenderId) ==
    LET sessionKey == commandKey(ctxSenderId)
    IN  /\ CommandsRegistered
        /\ events < MaxEvents
        /\ events' = events + 1
        /\ stoppedSessions' = IF sessionKey \in stoppedSessions
                              THEN stoppedSessions \ {sessionKey}
                              ELSE stoppedSessions
        /\ last' = [NoLast EXCEPT !.op = "unhalt",
                                  !.senderId = ctxSenderId,
                                  !.text = unhaltReply(sessionKey),
                                  !.at = now]
        /\ UNCHANGED <<mmClient, interrupter, config, botAccounts, sessionSenders, pendingCalls,
                       lastSessionKey, now, inflight, running, done>>

-----------------------------------------------------------------------------
(* before_tool_call, lines 763-856 *)

\* variant: the halt check looks at the key "default", not at the recipient
isBlockedDefaultKey(senderId) ==
    config.enableHaltCommands /\ "default" \in stoppedSessions

\* variant: one halted recipient blocks every tool call
isBlockedGlobal(senderId) ==
    config.enableHaltCommands /\ stoppedSessions # {}

\* line 819
isBlocked(senderId) ==
    config.enableHaltCommands /\ senderId # undefined
    /\ senderId \in stoppedSessions

\* variant: the client's REST credentials are not looked at
postsToDmWithoutRest(client, senderId) ==
    config.postToConversation /\ senderId # undefined

\* lines 832 and 915: the direct message needs the toggle, REST and a sender
postsToDm(client, senderId) ==
    config.postToConversation /\ hasRestApi(client) /\ senderId # undefined

\* line 827
toolCallId(sessionKey, toolName, at) ==
    <<IF sessionKey # undefined THEN sessionKey ELSE "default", toolName, at>>

\* variant: the call is posted before the halt check returns
postsCallWhenBlocked(skipped, blocked) ==
    ~skipped

\* lines 777-790 and 819-825 return before the post of lines 829-839
postsCall(skipped, blocked) ==
    ~skipped /\ ~blocked

BeforeToolCall(toolName, sessionKey) ==
    LET gc == getClient(sessionKey)
        client == gc.client
        senderId == resolveSender(sessionKey, gc.accountName)
        call == [sessionKey |-> sessionKey, toolName |-> toolName]
        skipped == toolName \in excludedTools \/ client.isNull
        blocked == ~skipped /\ isBlocked(senderId)
        dm == postsToDm(client, senderId)
        task == [kind |-> "call", stage |-> "first",
                 dest |-> IF dm THEN senderId ELSE undefined,
                 toolName |-> toolName, sessionKey |-> sessionKey,
                 origin |-> sessionKey, at |-> now]
    IN  /\ Registered
        /\ events < MaxEvents
        /\ events' = events + 1
        /\ lastSessionKey' = sessionKey
        /\ running' = IF skipped THEN running \cup {call} ELSE running
        /\ IF postsCall(skipped, blocked)
           THEN /\ Cardinality(inflight) < MaxInFlight
                /\ task \notin inflight
                /\ inflight' = inflight \cup {task}
           ELSE inflight' = inflight
        /\ last' = [NoLast EXCEPT
                      !.op = "before_tool_call",
                      !.sessionKey = sessionKey,
                      !.origin = sessionKey,
                      !.toolName = toolName,
                      !.accountName = IF toolName \in excludedTools
                                      THEN undefined ELSE gc.accountName,
                      !.senderId = IF skipped THEN undefined ELSE senderId,
                      !.block = blocked,
                      !.blockReason = IF blocked THEN BlockReason ELSE undefined,
                      !.route = IF skipped \/ blocked THEN undefined
                                ELSE IF dm THEN "dm" ELSE "webhook",
                      !.botToken = IF skipped THEN undefined ELSE client.botToken,
                      !.at = now]
        /\ UNCHANGED <<mmClient, interrupter, config, botAccounts, sessionSenders, stoppedSessions,
                       pendingCalls, now, done>>

-----------------------------------------------------------------------------
(* tool_result_persist, lines 861-938 *)

\* variant: the skip looks at the excluded set only
skipsResultExcludedOnly(toolName) ==
    toolName \in excludedTools

\* line 878
skipsResult(toolName) ==
    ~config.includeResults \/ toolName \in excludedTools

\* the host persists the result of a tool call it let run
ToolResultPersist(call) ==
    LET toolName == call.toolName
        skipped == skipsResult(toolName)
        gc == getClient(lastSessionKey)
        client == gc.client
        senderId == resolveResultSender(lastSessionKey, gc.accountName)
        dm == postsToDm(client, senderId)
        posts == ~skipped /\ ~client.isNull
        task == [kind |-> "result", stage |-> "first",
                 dest |-> IF dm THEN senderId ELSE undefined,
                 toolName |-> toolName, sessionKey |-> lastSessionKey,
                 origin |-> call.sessionKey, at |-> 0]
    IN  /\ Registered
        /\ call \in running
        /\ running' = running \ {call}
        /\ IF posts
           THEN /\ Cardinality(inflight) < MaxInFlight
                /\ task \notin inflight
                /\ inflight' = inflight \cup {task}
           ELSE inflight' = inflight
        /\ last' = [NoLast EXCEPT
                      !.op = "tool_result_persist",
                      !.sessionKey = lastSessionKey,
                      !.origin = call.sessionKey,
                      !.toolName = toolName,
                      !.accountName = IF posts THEN gc.accountName ELSE undefined,
                      !.senderId = IF posts THEN senderId ELSE undefined,
                      !.route = IF ~posts THEN undefined
                                ELSE IF dm THEN "dm" ELSE "webhook",
                      !.botToken = IF posts THEN client.botToken ELSE undefined,
                      !.at = now]
        /\ UNCHANGED <<mmClient, interrupter, config, botAccounts, sessionSenders, stoppedSessions,
                       pendingCalls, lastSessionKey, now, done, events>>

-----------------------------------------------------------------------------
(* The awaited posts: src/src/mattermost.ts postToDm / postToWebhook, and the
   catch blocks of lines 846-854 and 922-931 *)

\* postToWebhook throws before any request when no webhook URL is configured
\* (mattermost.ts 147-149); a direct message is only tried with REST present
canSucceed(task) ==
    task.dest # undefined \/ config.webhookUrl # undefined

\* the post id: result.id for REST (mattermost.ts 120-121), none for a webhook
postIdOf(task) ==
    IF task.dest # undefined THEN "post" ELSE undefined

\* variant: the retry goes where the first attempt went
fallbackOfSameRoute(task) ==
    [task EXCEPT !.stage = "fallback"]

\* lines 850 and 927: the retry is a postToWebhook
fallbackOf(task) ==
    [task EXCEPT !.stage = "fallback", !.dest = undefined]

\* variant: the rejection of a result's retry is not caught
rejectsResultRetry(task) ==
    task.kind = "halt" \/ (task.kind = "result" /\ task.stage = "fallback")

\* a rejected post escapes its handler: the halt command awaits postToDm
\* outside any try (lines 692-694); the hooks catch theirs (846-853, 922-935)
rejects(task) ==
    task.kind = "halt"

completed(task, threw, text) ==
    [op |-> task.kind, threw |-> threw, text |-> text]

callOf(task) ==
    [sessionKey |-> task.origin, toolName |-> task.toolName]

\* variant: the retry's success is recorded too
recordsPendingAnyStage(task) ==
    task.kind = "call"

\* lines 829-845: pendingCalls.set follows the first post inside the try
recordsPending(task) ==
    task.kind = "call" /\ task.stage = "first"

\* the awaited post resolves
PostSucceeds(task) ==
    /\ task \in inflight
    /\ canSucceed(task)
    /\ inflight' = inflight \ {task}
    /\ pendingCalls' =
           IF recordsPending(task)
           THEN LET id == toolCallId(task.sessionKey, task.toolName, task.at)
                    value == [postId |-> postIdOf(task),
                              toolName |-> task.toolName, startTime |-> now]
                IN  [k \in DOMAIN pendingCalls \cup {id} |->
                        IF k = id THEN value ELSE pendingCalls[k]]
           ELSE pendingCalls
    /\ running' = IF task.kind = "call"
                  THEN running \cup {callOf(task)} ELSE running
    /\ done' = completed(task, FALSE,
                         IF task.kind = "halt" THEN HaltText ELSE undefined)
    /\ UNCHANGED <<mmClient, interrupter, config, botAccounts, sessionSenders, stoppedSessions,
                   lastSessionKey, now, last, events>>

\* the awaited post rejects
PostFails(task) ==
    /\ task \in inflight
    /\ IF rejects(task)
       THEN /\ inflight' = inflight \ {task}
            /\ running' = running
            /\ done' = completed(task, TRUE, undefined)
       ELSE IF task.stage = "first"
       THEN /\ inflight' = (inflight \ {task}) \cup {fallbackOf(task)}
            /\ running' = running
            /\ done' = done
       ELSE /\ inflight' = inflight \ {task}
            /\ running' = IF task.kind = "call"
                          THEN running \cup {callOf(task)} ELSE running
            /\ done' = completed(task, FALSE, undefined)
    /\ UNCHANGED <<mmClient, interrupter, config, botAccounts, sessionSenders, stoppedSessions,
                   pendingCalls, lastSessionKey, now, last, events>>

-----------------------------------------------------------------------------
(* Time *)

\* the clock advances to just inside the freshness window, or to its end
TickSteps ==
    {FreshWindow - 1, FreshWindow}

Tick(d) ==
    /\ events < MaxEvents
    /\ events' = events + 1
    /\ now' = now + d
    /\ UNCHANGED <<mmClient, interrupter, config, botAccounts, sessionSenders, stoppedSessions,
                   pendingCalls, lastSessionKey, inflight, running, last, done>>

-----------------------------------------------------------------------------
(* The interrupter plugin, src/unnamed/part_002 49-131: /stop and /resume with
   a stoppedSessions set of its own *)

NoInterrupterLast ==
    [op |-> "none", senderId |-> undefined, content |-> undefined,
     sessionKey |-> undefined, block |-> FALSE, text |-> undefined]

NoInterrupter ==
    [stoppedSessions |-> {}, last |-> NoInterrupterLast]

StoppedText ==
    "Agent stopped. Tool calls will be blocked until you send a new message."

NotStoppedText ==
    "Agent is not currently stopped."

\* part_002 74-80
Stop(ctxSenderId) ==
    LET sessionKey == IF ctxSenderId # undefined THEN ctxSenderId ELSE "default"
    IN  /\ events < MaxEvents
        /\ events' = events + 1
        /\ interrupter' =
               [stoppedSessions |-> interrupter.stoppedSessions \cup {sessionKey},
                last |-> [NoInterrupterLast EXCEPT !.op = "stop",
                                                   !.senderId = ctxSenderId,
                                                   !.text = StoppedText]]
        /\ UNCHANGED <<config, botAccounts, sessionSenders, stoppedSessions,
                       pendingCalls, lastSessionKey, now, inflight, running,
                       last, done, mmClient>>

\* part_002 88-96
Resume(ctxSenderId) ==
    LET sessionKey == IF ctxSenderId # undefined THEN ctxSenderId ELSE "default"
        has == sessionKey \in interrupter.stoppedSessions
    IN  /\ events < MaxEvents
        /\ events' = events + 1
        /\ interrupter' =
               [stoppedSessions |-> IF has
                                    THEN interrupter.stoppedSessions \ {sessionKey}
                                    ELSE interrupter.stoppedSessions,
                last |-> [NoInterrupterLast EXCEPT
                             !.op = "resume",
                             !.senderId = ctxSenderId,
                             !.text = IF has THEN ResumedText ELSE NotStoppedText]]
        /\ UNCHANGED <<config, botAccounts, sessionSenders, stoppedSessions,
                       pendingCalls, lastSessionKey, now, inflight, running,
                       last, done, mmClient>>

\* part_002 99-109
InterrupterMessageReceived(senderId, content) ==
    LET clears == /\ senderId # undefined
                  /\ senderId \in interrupter.stoppedSessions
                  /\ ~StartsWith(content, "/stop")
                  /\ ~StartsWith(content, "/resume")
    IN  /\ events < MaxEvents
        /\ events' = events + 1
        /\ interrupter' =
               [stoppedSessions |-> IF clears
                                    THEN interrupter.stoppedSessions \ {senderId}
                                    ELSE interrupter.stoppedSessions,
                last |-> [NoInterrupterLast EXCEPT !.op = "message_received",
                                                   !.senderId = senderId,
                                                   !.content = content]]
        /\ UNCHANGED <<config, botAccounts, sessionSenders, stoppedSessions,
                       pendingCalls, lastSessionKey, now, inflight, running,
                       last, done, mmClient>>

\* part_002 114-125: the loop over stoppedSessions
interrupterBlocks(sessionKey) ==
    \E stopped \in interrupter.stoppedSessions :
        stopped = sessionKey \/ stopped = "default"

\* part_002 111-127
InterrupterBeforeToolCall(ctxSessionKey) ==
    LET sessionKey == IF ctxSessionKey # undefined THEN ctxSessionKey
                      ELSE "default"
    IN  /\ events < MaxEvents
        /\ events' = events + 1
        /\ interrupter' =
               [interrupter EXCEPT
                   !.last = [NoInterrupterLast EXCEPT
                                !.op = "before_tool_call",
                                !.sessionKey = sessionKey,
                                !.block = interrupterBlocks(sessionKey)]]
        /\ UNCHANGED <<config, botAccounts, sessionSenders, stoppedSessions,
                       pendingCalls, lastSessionKey, now, inflight, running,
                       last, done, mmClient>>

-----------------------------------------------------------------------------
(* MattermostClient, src/src/mattermost.ts.  A method is an operator from the
   client and the backend's answers to what the call did: the cache it left,
   whether it threw, what it returned, how many requests it sent, and the
   transport it used. *)

NoClientLast ==
    [op |-> "none", arg |-> undefined, threw |-> FALSE, result |-> undefined,
     requests |-> 0, transport |-> undefined]

\* constructor, lines 27-35; dmChannelCache starts empty, line 25
NewClient(webhookUrl, baseUrl, botToken) ==
    [webhookUrl |-> webhookUrl, baseUrl |-> baseUrl, botToken |-> botToken,
     dmChannelCache |-> << >>, last |-> NoClientLast]

Outcome(cache, threw, result, requests, transport) ==
    [cache |-> cache, threw |-> threw, result |-> result,
     requests |-> requests, transport |-> transport]

\* variant: the id of a failed channel request is cached all the same
getDmChannelCachingFailures(c, userId, meOk, channelOk, id) ==
    LET cache == c.dmChannelCache
        set == [k \in DOMAIN cache \cup {userId} |->
                   IF k = userId THEN id ELSE cache[k]]
    IN  IF userId \in DOMAIN cache
        THEN Outcome(cache, FALSE, cache[userId], 0, "rest")
        ELSE IF c.baseUrl = undefined \/ c.botToken = undefined
        THEN Outcome(cache, TRUE, undefined, 0, "rest")
        ELSE IF ~meOk THEN Outcome(cache, TRUE, undefined, 1, "rest")
        ELSE IF ~channelOk THEN Outcome(set, TRUE, undefined, 2, "rest")
        ELSE Outcome(set, FALSE, id, 2, "rest")

\* lines 42-87; meOk and channelOk are the two responses' ok, id the
\* channel id the backend answers with
getDmChannel(c, userId, meOk, channelOk, id) ==
    LET cache == c.dmChannelCache
        set == [k \in DOMAIN cache \cup {userId} |->
                   IF k = userId THEN id ELSE cache[k]]
    IN  IF userId \in DOMAIN cache
        THEN Outcome(cache, FALSE, cache[userId], 0, "rest")
        ELSE IF c.baseUrl = undefined \/ c.botToken = undefined
        THEN Outcome(cache, TRUE, undefined, 0, "rest")
        ELSE IF ~meOk THEN Outcome(cache, TRUE, undefined, 1, "rest")
        ELSE IF ~channelOk THEN Outcome(cache, TRUE, undefined, 2, "rest")
        ELSE Outcome(set, FALSE, id, 2, "rest")

\* lines 95-128
postToChannel(c, channelId, ok) ==
    IF c.baseUrl = undefined \/ c.botToken = undefined
    THEN Outcome(c.dmChannelCache, TRUE, undefined, 0, "rest")
    ELSE IF ~ok THEN Outcome(c.dmChannelCache, TRUE, undefined, 1, "rest")
    ELSE Outcome(c.dmChannelCache, FALSE, "post", 1, "rest")

\* lines 146-193
postToWebhook(c, ok) ==
    IF c.webhookUrl = undefined
    THEN Outcome(c.dmChannelCache, TRUE, undefined, 0, "webhook")
    ELSE IF ~ok THEN Outcome(c.dmChannelCache, TRUE, undefined, 1, "webhook")
    ELSE Outcome(c.dmChannelCache, FALSE, undefined, 1, "webhook")

\* variant: a channel id alone selects the REST API
postByChannelIdOnly(c, channelId, ok) ==
    IF channelId # undefined THEN postToChannel(c, channelId, ok)
    ELSE postToWebhook(c, ok)

\* lines 200-205
post(c, channelId, ok) ==
    IF channelId # undefined /\ c.baseUrl # undefined /\ c.botToken # undefined
    THEN postToChannel(c, channelId, ok)
    ELSE postToWebhook(c, ok)

\* a method call on the client
ClientCall(op, arg, outcome) ==
    /\ events < MaxEvents
    /\ events' = events + 1
    /\ mmClient' = [mmClient EXCEPT
                       !.dmChannelCache = outcome.cache,
                       !.last = [op |-> op, arg |-> arg,
                                 threw |-> outcome.threw,
                                 result |-> outcome.result,
                                 requests |-> outcome.requests,
                                 transport |-> outcome.transport]]
    /\ UNCHANGED <<config, botAccounts, sessionSenders, stoppedSessions,
                   pendingCalls, lastSessionKey, now, inflight, running, last,
                   done, interrupter>>

GetDmChannel(userId, meOk, channelOk, id) ==
    ClientCall("getDmChannel", userId,
               getDmChannel(mmClient, userId, meOk, channelOk, id))

PostToChannel(channelId, ok) ==
    ClientCall("postToChannel", channelId, postToChannel(mmClient, channelId, ok))

PostToWebhook(ok) ==
    ClientCall("postToWebhook", undefined, postToWebhook(mmClient, ok))

Post(channelId, ok) ==
    ClientCall("post", channelId, post(mmClient, channelId, ok))

-----------------------------------------------------------------------------
(* Configurations *)

\* the README's defaults with two named bot accounts, REST and a webhook
BaseConfig ==
    [accounts |-> <<[key |-> "ops", botToken |-> "tokB",
                     baseUrl |-> undefined, name |-> "opsbot"],
                    [key |-> "default", botToken |-> "tokA",
                     baseUrl |-> undefined, name |-> undefined]>>,
     envToken |-> undefined,
     defaultBaseUrl |-> "https://mm",
     webhookUrl |-> "https://hook",
     excludeTools |-> {"message"},
     includeResults |-> TRUE,
     postToConversation |-> TRUE,
     enableHaltCommands |-> FALSE]

HaltConfig ==
    [BaseConfig EXCEPT !.enableHaltCommands = TRUE]

\* no account under the key "default", no webhook
NoDefaultConfig ==
    [HaltConfig EXCEPT
        !.accounts = <<[key |-> "ops", botToken |-> "tokB",
                        baseUrl |-> undefined, name |-> undefined],
                       [key |-> "qa", botToken |-> "tokC",
                        baseUrl |-> "https://qa", name |-> undefined]>>,
        !.webhookUrl = undefined]

WebhookOnlyConfig ==
    [BaseConfig EXCEPT !.accounts = << >>, !.defaultBaseUrl = undefined]

\* no credentials at all
EmptyConfig ==
    [BaseConfig EXCEPT !.accounts = << >>, !.webhookUrl = undefined]

\* a plugin/env token beside a named account "default"
EnvTokenConfig ==
    [BaseConfig EXCEPT !.envToken = "tokE"]

QuietConfig ==
    [BaseConfig EXCEPT !.postToConversation = FALSE, !.includeResults = FALSE]

Configs ==
    { BaseConfig, HaltConfig, NoDefaultConfig, WebhookOnlyConfig, EmptyConfig,
      EnvTokenConfig, QuietConfig }

InitWith(cfgs) ==
    /\ config \in cfgs
    /\ botAccounts = BuildBotAccounts(config)
    /\ sessionSenders = << >>
    /\ stoppedSessions = {}
    /\ pendingCalls = << >>
    /\ lastSessionKey = undefined
    /\ now = 0
    /\ inflight = {}
    /\ running = {}
    /\ last = NoLast
    /\ done = NoDone
    /\ events = 0
    /\ interrupter = NoInterrupter
    /\ mmClient = NewClient("https://hook", "https://mm", "tokA")

-----------------------------------------------------------------------------
(* Host events.  A message is <<senderId, content, metadata.sessionKey,
   ctx.conversationId, ctx.accountId>>. *)

Users ==
    {"u1", "u2"}

Events(steps, messages, toolNames, sessionKeys) ==
    \/ \E d \in steps : Tick(d)
    \/ \E m \in messages : MessageReceived(m[1], m[2], m[3], m[4], m[5])
    \/ \E t \in toolNames, s \in sessionKeys : BeforeToolCall(t, s)
    \/ \E call \in running : ToolResultPersist(call)
    \/ \E task \in inflight : PostSucceeds(task)
    \/ \E task \in inflight : PostFails(task)

Commands(senders) ==
    \/ \E u \in senders : Halt(u)
    \/ \E u \in senders : Unhalt(u)

-----------------------------------------------------------------------------
(* Sender resolution under the default configuration: messages of two users
   in a subagent session of the account "ops"; tool calls of that session, of
   a cron session and of an interactive session of the same account. *)

ResolverMessages ==
    {<<u, "hello", "agent:ops:subagent:t1", "conv1", "ops">> : u \in Users}

ResolverSessionKeys ==
    {"agent:ops:subagent:t1", "agent:ops:cron:j1", "agent:ops:chat"}

InitResolver ==
    InitWith({BaseConfig})

NextResolver ==
    Events(TickSteps, ResolverMessages, {"exec"}, ResolverSessionKeys)

SpecResolver ==
    InitResolver /\ [][NextResolver]_vars

-----------------------------------------------------------------------------
(* The halt gate, with halt commands enabled: two users, each talking to its
   own bot account, and the tool calls of the two agents' main sessions. *)

HaltMessages ==
    {<<"u1", c, undefined, "conv1", "ops">> : c \in {"hello", "/halt", "/unhalt"}}
    \cup {<<"u2", "hello", undefined, "conv2", "default">>}

HaltSessionKeys ==
    {"agent:ops:main", "agent:default:main"}

InitHalt ==
    InitWith({HaltConfig})

NextHalt ==
    \/ Events(TickSteps, HaltMessages, {"exec", "message"}, HaltSessionKeys)
    \/ Commands({"u1", undefined})

SpecHalt ==
    InitHalt /\ [][NextHalt]_vars

-----------------------------------------------------------------------------
(* The sender table: two users of the same bot account, one in the agent's
   main session, one in a conversation of its own; with and without result
   posting. *)

LinkMessages ==
    { <<"u1", "hello", "agent:ops:main", "conv1", "ops">>,
      <<"u2", "hello", undefined, "conv2", "ops">> }

LinkSessionKeys ==
    {"agent:ops:main", "agent:conv2"}

InitLinks ==
    InitWith({BaseConfig, QuietConfig})

NextLinks ==
    Events({FreshWindow}, LinkMessages, {"exec", "message"}, LinkSessionKeys)

SpecLinks ==
    InitLinks /\ [][NextLinks]_vars

-----------------------------------------------------------------------------
(* A halt in force.  The exploration starts in the state SpecHalt reaches by
   message_received(u1, "hello", conv1, ops), before_tool_call(exec,
   agent:ops:main) with its post answered, and /halt from u1 with its reply
   sent: the session resolved to u1, then u1 was halted.  No command follows,
   so u1 leaves the halt set only by a message of its own. *)

HeldState ==
    /\ config = HaltConfig
    /\ botAccounts = BuildBotAccounts(config)
    /\ sessionSenders =
           [k \in {"conv1", "agent:conv1", "ops", "agent:ops:main"} |->
               [senderId |-> "u1", timestamp |-> 0]]
    /\ stoppedSessions = {"u1"}
    /\ pendingCalls =
           [k \in {<<"agent:ops:main", "exec", 0>>} |->
               [postId |-> "post", toolName |-> "exec", startTime |-> 0]]
    /\ lastSessionKey = "agent:ops:main"
    /\ now = 0
    /\ inflight = {}
    /\ running = {[sessionKey |-> "agent:ops:main", toolName |-> "exec"]}
    /\ last = [NoLast EXCEPT !.op = "halt", !.senderId = "u1", !.route = "dm"]
    /\ done = [op |-> "halt", threw |-> FALSE, text |-> HaltText]
    /\ interrupter = NoInterrupter
    /\ mmClient = NewClient("https://hook", "https://mm", "tokA")

HeldMessages ==
    { <<"u1", "hello", undefined, "conv1", "ops">>,
      <<"u1", "/halt", undefined, "conv1", "ops">>,
      <<"u2", "hello", undefined, "conv2", "ops">>,
      <<undefined, "hello", undefined, "conv1", "ops">>,
      <<undefined, "/unhalt", "agent:ops:main", "conv3", "default">> }

HeldSessionKeys ==
    {"agent:ops:main"}

InitHeld ==
    HeldState /\ events = 0

NextHeld ==
    Events(TickSteps, HeldMessages, {"exec", "message"}, HeldSessionKeys)

SpecHeld ==
    InitHeld /\ [][NextHeld]_vars

-----------------------------------------------------------------------------
(* The interrupter deployment: two users, their agents' main sessions, and
   commands and tool calls that come without a sender id or a session key. *)

InterrupterContents ==
    {"hello", "/stop", "/resume"}

InterrupterSessionKeys ==
    {"agent:ops:main", "agent:default:main", undefined}

InitInterrupter ==
    InitWith({BaseConfig})

NextInterrupter ==
    \/ \E u \in Users \cup {undefined} : Stop(u)
    \/ \E u \in Users \cup {undefined} : Resume(u)
    \/ \E u \in Users, c \in InterrupterContents :
           InterrupterMessageReceived(u, c)
    \/ \E s \in InterrupterSessionKeys : InterrupterBeforeToolCall(s)

SpecInterrupter ==
    InitInterrupter /\ [][NextInterrupter]_vars

-----------------------------------------------------------------------------
(* One MattermostClient under every combination of credentials, a backend
   that answers ok or not, and that names a direct channel as it likes. *)

ChannelIds ==
    {"ch1", "ch2"}

InitClient ==
    /\ config = BaseConfig
    /\ botAccounts = BuildBotAccounts(config)
    /\ sessionSenders = << >>
    /\ stoppedSessions = {}
    /\ pendingCalls = << >>
    /\ lastSessionKey = undefined
    /\ now = 0
    /\ inflight = {}
    /\ running = {}
    /\ last = NoLast
    /\ done = NoDone
    /\ events = 0
    /\ interrupter = NoInterrupter
    /\ \E w \in {undefined, "https://hook"}, b \in {undefined, "https://mm"},
          t \in {undefined, "tokA"} : mmClient = NewClient(w, b, t)

NextClient ==
    \/ \E u \in Users, meOk \in BOOLEAN, channelOk \in BOOLEAN, id \in ChannelIds :
           GetDmChannel(u, meOk, channelOk, id)
    \/ \E ch \in ChannelIds, ok \in BOOLEAN : PostToChannel(ch, ok)
    \/ \E ok \in BOOLEAN : PostToWebhook(ok)
    \/ \E ch \in ChannelIds \cup {undefined}, ok \in BOOLEAN : Post(ch, ok)

SpecClient ==
    InitClient /\ [][NextClient]_vars

-----------------------------------------------------------------------------
(* Every configuration, with one user and the session keys of a known and of
   an unknown agent. *)

Messages ==
    {<<"u1", "hello", undefined, "conv1", "ops">>}

SessionKeys ==
    {"agent:ops:main", "session:agent:zed:main"}

Init ==
    InitWith(Configs)

Next ==
    \/ Events({FreshWindow}, Messages, {"exec"}, SessionKeys)
    \/ Commands({"u1"})

Spec ==
    Init /\ [][Next]_vars

-----------------------------------------------------------------------------
(* Properties.  `last` is the latest handler invocation: no handler has run
   since, so the sender table and the halt set are the ones it left. *)

\* a before_tool_call that reached sender resolution (lines 793-813)
Resolved ==
    last.op = "before_tool_call" /\ (last.route # undefined \/ last.block)

\* a step that is a handler invocation: the host delivered an event
Delivered ==
    events' = events + 1 /\ now' = now

\* C1: a tool call whose session key has a link in the sender table resolves
\* to the recipient of that link (the latest message recorded under the key),
\* however long ago the link was recorded.
C1_ExactSessionMatchWins ==
    (Resolved /\ last.sessionKey \in DOMAIN sessionSenders)
        => last.senderId = sessionSenders[last.sessionKey].senderId

\* a tool call resolved by a session link that is a full window old or older
C1_Witness ==
    /\ Resolved
    /\ last.sessionKey \in DOMAIN sessionSenders
    /\ last.at - sessionSenders[last.sessionKey].timestamp >= 1800 * 1000
    /\ last.senderId = sessionSenders[last.sessionKey].senderId
    /\ last.route = "dm"

\* C2: a tool call whose session key has no link resolves to the sender last
\* recorded for its account exactly when that link is less than 1800 s old and
\* the session key holds neither ":subagent:" nor ":cron:"; otherwise to none.
C2_AccountFallback ==
    (Resolved /\ last.sessionKey \notin DOMAIN sessionSenders) =>
        LET A == last.accountName
            eligible == /\ A \in DOMAIN sessionSenders
                        /\ last.at - sessionSenders[A].timestamp < 1800 * 1000
                        /\ ~Includes(last.sessionKey, ":subagent:")
                        /\ ~Includes(last.sessionKey, ":cron:")
        IN  IF eligible THEN last.senderId = sessionSenders[A].senderId
            ELSE last.senderId = undefined

\* the fallback taken one millisecond before the link turns stale
C2_Witness ==
    /\ Resolved
    /\ last.sessionKey \notin DOMAIN sessionSenders
    /\ last.accountName \in DOMAIN sessionSenders
    /\ last.at - sessionSenders[last.accountName].timestamp = 1800 * 1000 - 1
    /\ last.senderId = sessionSenders[last.accountName].senderId
    /\ last.route = "dm"

\* C3: a post for a tool call of a subagent or cron session (task.origin is
\* the session the host made the call in) is a direct message only when a
\* link was recorded under exactly that session key.
C3_BackgroundNeverMisdirected ==
    \A task \in inflight :
        (/\ task.kind \in {"call", "result"}
         /\ (Includes(task.origin, ":subagent:") \/ Includes(task.origin, ":cron:"))
         /\ task.dest # undefined)
            => task.origin \in DOMAIN sessionSenders

\* C4: with halt commands enabled, a before_tool_call whose session resolves
\* to a halted recipient returns block = true with a reason, whatever the tool.
C4_HaltedRecipientBlocked ==
    (/\ last.op = "before_tool_call"
     /\ last.at = now
     /\ config.enableHaltCommands
     /\ resolveSender(last.sessionKey, getClient(last.sessionKey).accountName)
            \in stoppedSessions)
        => (last.block /\ last.blockReason # undefined)

\* C5: after halt(U) the recipient U is halted; after a message of U that is
\* neither a halt nor an unhalt command U is not halted; and a tool call is
\* blocked only when its resolved recipient is halted.
C5_HaltThenMessageResumes ==
    /\ (last.op = "halt" /\ last.senderId # undefined)
           => last.senderId \in stoppedSessions
    /\ (last.op = "message_received" /\ last.senderId # undefined
        /\ last.content \notin {"/halt", "/unhalt"})
           => last.senderId \notin stoppedSessions
    /\ (last.op = "before_tool_call" /\ last.senderId \notin stoppedSessions)
           => ~last.block

\* a message that took its halted sender out of the halt set
C5_Witness ==
    /\ last.op = "message_received"
    /\ last.content = "hello"
    /\ last.log = "Session auto-resumed on new message"
    /\ last.senderId \notin stoppedSessions

\* C6: a message_received whose content is a halt or unhalt command leaves
\* the halt set as it was.
C6_CommandEchoKeepsHalt ==
    [][(Delivered /\ last'.op = "message_received"
        /\ last'.content \in {"/halt", "/unhalt"})
           => stoppedSessions' = stoppedSessions]_vars

\* the sender of a "/halt" message is still halted after it
C6_Witness ==
    /\ last.op = "message_received"
    /\ last.content = "/halt"
    /\ last.senderId \in stoppedSessions

\* C7: a halt, unhalt or message event changes the halt status of its own
\* recipient only, and a tool call is blocked only when the recipient it
\* resolved to is halted.
C7_HaltPerRecipient ==
    [][/\ (Delivered /\ last'.op \in {"halt", "unhalt"})
           => \A r \in (stoppedSessions \cup stoppedSessions') \ {commandKey(last'.senderId)} :
                  r \in stoppedSessions /\ r \in stoppedSessions'
       /\ (Delivered /\ last'.op = "message_received")
           => \A r \in (stoppedSessions \cup stoppedSessions') \ {last'.senderId} :
                  r \in stoppedSessions /\ r \in stoppedSessions'
       /\ (Delivered /\ last'.op = "before_tool_call" /\ last'.block)
           => last'.senderId \in stoppedSessions']_vars

\* u1 is halted and a tool call resolved to u2 is posted, not blocked
C7_Witness ==
    /\ last.op = "before_tool_call"
    /\ "u1" \in stoppedSessions
    /\ last.senderId = "u2"
    /\ ~last.block
    /\ last.route = "dm"

\* C8: with enableHaltCommands off no handler invocation is a halt or unhalt
\* command, the halt set stays empty and no before_tool_call is blocked.
C8_DisabledNeverBlocks ==
    ~config.enableHaltCommands =>
        /\ last.op \notin {"halt", "unhalt"}
        /\ stoppedSessions = {}
        /\ ~last.block

\* a tool call posted under the default configuration
C8_Witness ==
    /\ config = BaseConfig
    /\ last.op = "before_tool_call"
    /\ last.route # undefined
    /\ ~last.block

\* C9: unhalt(U) when U is not halted replies "Agent is not currently
\* halted." and leaves the halt set unchanged.
C9_UnhaltWhenNotHalted ==
    [][(Delivered /\ last'.op = "unhalt"
        /\ commandKey(last'.senderId) \notin stoppedSessions)
           => (/\ last'.text = "Agent is not currently halted."
               /\ stoppedSessions' = stoppedSessions)]_vars

\* an unhalt command answered "not halted"
C9_Witness ==
    /\ last.op = "unhalt"
    /\ last.text = "Agent is not currently halted."
    /\ commandKey(last.senderId) \notin stoppedSessions

\* the token of the account the claim's rule gives for an agent name
RuleToken(hint) ==
    IF MapHas(botAccounts, hint) THEN MapGet(botAccounts, hint, NoAccount).token
    ELSE IF MapHas(botAccounts, "default")
         THEN MapGet(botAccounts, "default", NoAccount).token
    ELSE IF Len(botAccounts) > 0 THEN Head(botAccounts)[2].token
    ELSE undefined

\* C10: the account of a session key is the one registered under its agent
\* name (key or alias), else the one under "default", else the first inserted,
\* else none; with {default, ops}, "ops" gives ops and an unknown agent default.
C10_AccountResolution ==
    /\ \A hint \in {"default", "ops", "opsbot", "qa", "unknown-agent"} :
           selectAccount("agent:" \o hint \o ":main").account.token = RuleToken(hint)
    /\ (Resolved /\ last.sessionKey = "session:agent:zed:main")
           => last.botToken = RuleToken("zed")
    /\ config = BaseConfig =>
           /\ selectAccount("agent:ops:main").account.token = "tokB"
           /\ selectAccount("agent:opsbot:main").account.token = "tokB"
           /\ selectAccount("agent:unknown-agent:main").account.token = "tokA"
    /\ config = NoDefaultConfig =>
           selectAccount("agent:unknown-agent:main").account.token = "tokB"
    /\ config = WebhookOnlyConfig =>
           selectAccount("agent:ops:main").account = NoAccount

\* without an account "default", the call of an unknown agent is posted with
\* the first inserted account
C10_Witness ==
    /\ config = NoDefaultConfig
    /\ Resolved
    /\ last.sessionKey = "session:agent:zed:main"
    /\ last.botToken = "tokB"

\* a step that is the tool_result_persist handler: the host hands over the
\* result of a tool call it had let run
Persisted ==
    last'.op = "tool_result_persist" /\ running' # running
    /\ running' \subseteq running

\* the first attempt of a handler's post, started in this step
Started(kind) ==
    {task \in inflight' \ inflight : task.kind = kind /\ task.stage = "first"}

\* C11: every key of the registry holds the entry of its highest-precedence
\* source: a named account keeps its key (here no alias collides with a key)
\* and its alias, and the global/environment token is stored under "default"
\* only when no named account is.
C11_RegistryPrecedence ==
    /\ \A i \in 1..Len(config.accounts) :
           LET a == config.accounts[i]
           IN  a.botToken # undefined =>
                   /\ MapGet(botAccounts, a.key, NoAccount).token = a.botToken
                   /\ (a.name # undefined =>
                           MapGet(botAccounts, a.name, NoAccount).token = a.botToken)
    /\ (/\ config.envToken # undefined
        /\ \A i \in 1..Len(config.accounts) : config.accounts[i].key # "default")
           => MapGet(botAccounts, "default", NoAccount).token = config.envToken

\* C12: a before_tool_call for a tool of the excluded set starts no post and
\* records no pending call, and no post in flight is for such a call.
C12_ExcludedToolNeverPosts ==
    [][/\ (Delivered /\ last'.op = "before_tool_call"
           /\ last'.toolName \in config.excludeTools)
              => /\ inflight' = inflight
                 /\ pendingCalls' = pendingCalls
                 /\ last'.route = undefined
       /\ \A task \in inflight' :
              task.kind = "call" => task.toolName \notin config.excludeTools]_vars

\* an excluded tool called in a session whose recipient is known
C12_Witness ==
    /\ last.op = "before_tool_call"
    /\ last.toolName = "message"
    /\ last.sessionKey \in DOMAIN sessionSenders
    /\ config.postToConversation
    /\ inflight = {}

\* C13: a post of before_tool_call or tool_result_persist is attempted at most
\* twice; the second attempt replaces a failed first one and goes to the
\* shared channel; when it fails too nothing more is attempted, nothing is
\* thrown, and a before_tool_call has returned without blocking.
C13_SingleRetry ==
    [][/\ \A task \in inflight' :
              task.kind \in {"call", "result"} =>
                  /\ task.stage \in {"first", "fallback"}
                  /\ task.stage = "fallback" => task.dest = undefined
       /\ \A retry \in inflight' \ inflight :
              (retry.kind \in {"call", "result"} /\ retry.stage = "fallback") =>
                  /\ [retry EXCEPT !.stage = "first"] \in
                         {[task EXCEPT !.dest = undefined] : task \in inflight \ inflight'}
                  /\ Cardinality(inflight' \ inflight) = 1
       /\ \A task \in inflight \ inflight' :
              (task.kind \in {"call", "result"} /\ task.stage = "fallback") =>
                  /\ inflight' = inflight \ {task}
                  /\ done'.op = task.kind /\ ~done'.threw
                  /\ task.kind = "call" =>
                         [sessionKey |-> task.origin, toolName |-> task.toolName]
                             \in running'
                  /\ pendingCalls' = pendingCalls]_vars

\* a direct message and its webhook retry both failed: the call handler has
\* returned, the tool runs, nothing was recorded as pending
C13_Witness ==
    /\ last.op = "before_tool_call"
    /\ last.route = "dm"
    /\ done = [op |-> "call", threw |-> FALSE, text |-> undefined]
    /\ pendingCalls = << >>
    /\ inflight = {}
    /\ [sessionKey |-> last.sessionKey, toolName |-> last.toolName] \in running

\* C14: tool_result_persist returns, with no modification, while its post is
\* still awaiting an answer; the answer, whatever it is, changes nothing the
\* host sees and throws nothing.
C14_FireAndForget ==
    [][/\ Persisted =>
              /\ last'.text = undefined /\ ~last'.block
              /\ done' = done
              /\ last'.route # undefined => Started("result") # {}
       /\ \A task \in inflight \ inflight' :
              task.kind = "result" =>
                  /\ last' = last
                  /\ running' = running
                  /\ ~done'.threw]_vars

\* the handler has returned and the retry of its post is still in flight
C14_Witness ==
    /\ last.op = "tool_result_persist"
    /\ \E task \in inflight : task.kind = "result" /\ task.stage = "fallback"

\* C15: a call or result post is a direct message exactly when
\* postToConversation is on, the selected client has a base URL and a token,
\* and a recipient was resolved; it then goes to that recipient, and in every
\* other case to the shared channel.
C15_RouteSelection ==
    [][\A kind \in {"call", "result"} :
           (/\ last'.route # undefined
            /\ IF kind = "call"
               THEN Delivered /\ last'.op = "before_tool_call"
               ELSE Persisted)
              => LET client == getClient(last'.sessionKey).client
                     direct == /\ config.postToConversation
                               /\ client.baseUrl # undefined
                               /\ client.botToken # undefined
                               /\ last'.senderId # undefined
                 IN  /\ last'.route = (IF direct THEN "dm" ELSE "webhook")
                     /\ Started(kind) # {}
                     /\ \A task \in Started(kind) :
                            task.dest = (IF direct THEN last'.senderId
                                         ELSE undefined)]_vars

\* a resolved recipient and no REST credentials: the post goes to the webhook
C15_Witness ==
    /\ config = WebhookOnlyConfig
    /\ last.op = "before_tool_call"
    /\ last.senderId = "u1"
    /\ last.route = "webhook"
    /\ \E task \in inflight : task.kind = "call" /\ task.dest = undefined

\* C16: after a message_received with recipient R, session key S and account
\* key A, the keys S, S with the prefix "agent:" ensured, and A all hold the
\* link (R, time of the message).
C16_LinkUnderEveryKey ==
    (/\ last.op = "message_received"
     /\ last.senderId # undefined
     /\ last.sessionKey # undefined
     /\ last.accountName # undefined)
        => LET S == last.sessionKey
               N == IF Len(S) >= 6 /\ SubSeq(S, 1, 6) = "agent:"
                    THEN S ELSE "agent:" \o S
               link == [senderId |-> last.senderId, timestamp |-> last.at]
           IN  \A k \in {S, N, last.accountName} :
                   k \in DOMAIN sessionSenders /\ sessionSenders[k] = link

\* a conversation id without the prefix, recorded after the clock advanced
C16_Witness ==
    /\ last.op = "message_received"
    /\ last.sessionKey = "conv2"
    /\ last.at > 0
    /\ "agent:conv2" \in DOMAIN sessionSenders
    /\ sessionSenders["agent:conv2"] = [senderId |-> "u2", timestamp |-> last.at]
    /\ sessionSenders["ops"] = sessionSenders["conv2"]

\* C17: a message_received stores its recipient under its session key, and
\* changes the recipient of no other session: every key other than its
\* session key (literal or prefixed) and its account key keeps its recipient.
C17_SessionLastWriteWins ==
    [][(Delivered /\ last'.op = "message_received"
        /\ last'.senderId # undefined /\ last'.sessionKey # undefined)
           => LET S0 == last'.sessionKey
                  N0 == IF Len(S0) >= 6 /\ SubSeq(S0, 1, 6) = "agent:"
                        THEN S0 ELSE "agent:" \o S0
              IN  /\ sessionSenders'[S0].senderId = last'.senderId
                  /\ \A S \in DOMAIN sessionSenders \ {S0, N0, last'.accountName} :
                         sessionSenders'[S].senderId = sessionSenders[S].senderId]_vars

\* C18: the last-seen session key is the session key of the latest
\* before_tool_call, and tool_result_persist resolves its recipient from it by
\* the rule of before_tool_call and routes the post as before_tool_call does.
C18_ResultUsesLastSessionKey ==
    [][/\ IF Delivered /\ last'.op = "before_tool_call"
          THEN lastSessionKey' = last'.sessionKey
          ELSE lastSessionKey' = lastSessionKey
       /\ (Persisted /\ last'.route # undefined)
              => LET gc == getClient(lastSessionKey)
                     R == resolveSender(lastSessionKey, gc.accountName)
                 IN  /\ last'.sessionKey = lastSessionKey
                     /\ last'.senderId = R
                     /\ last'.route = (IF postsToDm(gc.client, R)
                                       THEN "dm" ELSE "webhook")]_vars

\* the result of a cron call: the account has a fresh link, the marker keeps
\* the post in the shared channel
C18_Witness ==
    /\ last.op = "tool_result_persist"
    /\ last.sessionKey = "agent:ops:cron:j1"
    /\ lastSessionKey = "agent:ops:cron:j1"
    /\ "ops" \in DOMAIN sessionSenders
    /\ now - sessionSenders["ops"].timestamp < 1800 * 1000
    /\ last.senderId = undefined
    /\ last.route = "webhook"

\* C19: with includeResults off, or for a tool of the excluded set,
\* tool_result_persist starts no post and changes nothing the plugin keeps.
C19_ResultSkipIsNoOp ==
    [][(Persisted /\ (~config.includeResults
                      \/ last'.toolName \in config.excludeTools))
           => /\ inflight' = inflight
              /\ last'.route = undefined
              /\ UNCHANGED <<botAccounts, sessionSenders, stoppedSessions,
                             pendingCalls, lastSessionKey, done>>]_vars

\* results disabled: the result of a posted call is dropped
C19_Witness ==
    /\ config = QuietConfig
    /\ last.op = "tool_result_persist"
    /\ last.toolName = "exec"
    /\ last.route = undefined
    /\ pendingCalls # << >>
    /\ inflight = {}

\* C20: a tool call never writes the sender table, and two tool calls in a
\* row with the same session key at the same time, no other handler between
\* them, resolve to the same recipient.
C20_ResolveIsPureRead ==
    [][/\ ((Delivered /\ last'.op = "before_tool_call") \/ Persisted)
              => sessionSenders' = sessionSenders
       /\ (/\ Delivered
           /\ last'.op = "before_tool_call" /\ last.op = "before_tool_call"
           /\ last'.sessionKey = last.sessionKey /\ last'.at = last.at
           /\ last.route # undefined /\ last'.toolName = last.toolName)
              => /\ last'.senderId = last.senderId
                 /\ last'.route = last.route]_vars

\* the second of two calls of one session at one time, sent to the recipient
\* the first one was sent to
C20_Witness ==
    /\ last.op = "before_tool_call"
    /\ last.route = "dm"
    /\ <<last.sessionKey, last.toolName, last.at>> \in DOMAIN pendingCalls
    /\ pendingCalls[<<last.sessionKey, last.toolName, last.at>>].postId # undefined
    /\ \E task \in inflight :
           /\ task.kind = "call" /\ task.stage = "first"
           /\ task.sessionKey = last.sessionKey /\ task.at = last.at
           /\ task.dest = last.senderId

\* C21: a halt command always completes with its text reply, never by
\* raising, and an unhalt command always returns one of its two replies.
C21_CommandsNeverRaise ==
    /\ done.op = "halt" => (~done.threw /\ done.text = HaltText)
    /\ last.op = "unhalt" => last.text \in {ResumedText, NotHaltedText}
    /\ (last.op = "halt" /\ last.route = undefined) => last.text = HaltText

\* C22: after halt(U) the key of U is halted and every other key is as it
\* was, so a second halt(U) changes nothing; likewise unhalt(U) with U not
\* halted; and each reply names the state the command leaves.
C22_CommandsIdempotent ==
    [][/\ (Delivered /\ last'.op = "halt") =>
              LET k == IF last'.senderId # undefined THEN last'.senderId
                       ELSE "default"
              IN  /\ k \in stoppedSessions'
                  /\ stoppedSessions' \ {k} = stoppedSessions \ {k}
                  /\ k \in stoppedSessions => stoppedSessions' = stoppedSessions
                  /\ last'.text \in {undefined, HaltText}
       /\ (Delivered /\ last'.op = "unhalt") =>
              LET k == IF last'.senderId # undefined THEN last'.senderId
                       ELSE "default"
              IN  /\ k \notin stoppedSessions'
                  /\ stoppedSessions' \ {k} = stoppedSessions \ {k}
                  /\ k \notin stoppedSessions => stoppedSessions' = stoppedSessions
                  /\ last'.text = (IF k \in stoppedSessions
                                   THEN "Agent resumed. Tool calls are now enabled."
                                   ELSE "Agent is not currently halted.")
       /\ (done'.op = "halt" /\ ~done'.threw) => done'.text = HaltText]_vars

\* two /halt of u1 and nothing else: the first has replied, the second is
\* sending its notification, u1 is halted
C22_Witness ==
    /\ events = 2
    /\ sessionSenders = << >>
    /\ stoppedSessions = {"u1"}
    /\ last.op = "halt" /\ last.senderId = "u1"
    /\ done.op = "halt" /\ ~done.threw
    /\ \E task \in inflight : task.kind = "halt" /\ task.dest = "u1"

\* C23: with no bot token anywhere and no webhook URL no handler and no
\* command ever runs: nothing is posted, blocked, recorded or halted.
C23_NoCredentialsNoHandlers ==
    (/\ config.webhookUrl = undefined
     /\ config.envToken = undefined
     /\ \A i \in 1..Len(config.accounts) :
            config.accounts[i].botToken = undefined)
        => /\ last = NoLast
           /\ done = NoDone
           /\ inflight = {} /\ running = {}
           /\ sessionSenders = << >> /\ pendingCalls = << >>
           /\ stoppedSessions = {} /\ lastSessionKey = undefined

\* no credentials, time has passed, nothing has run
C23_Witness ==
    /\ config = EmptyConfig
    /\ now > 0
    /\ last = NoLast
    /\ inflight = {}

\* the agent session the host runs for a user of the interrupter deployment
AgentSessionOf(u) ==
    IF u = "u1" THEN "agent:ops:main" ELSE "agent:default:main"

\* C24: while a user who sent /stop has neither sent a new message nor
\* /resume (the user is in the interrupter's stopped set), every
\* before_tool_call of that user's agent session is blocked.
C24_StopBlocksUserSession ==
    (/\ interrupter.last.op = "before_tool_call"
     /\ \E u \in Users : /\ u \in interrupter.stoppedSessions
                         /\ interrupter.last.sessionKey = AgentSessionOf(u))
        => interrupter.last.block

\* C25: a key of the link table keeps a link for ever, and its value changes
\* only in a message_received with a recipient id that writes that key.
C25_LinkNeverDeleted ==
    [][\A k \in DOMAIN sessionSenders :
           /\ k \in DOMAIN sessionSenders'
           /\ sessionSenders'[k] # sessionSenders[k] =>
                  /\ Delivered
                  /\ last'.op = "message_received"
                  /\ last'.senderId # undefined
                  /\ sessionSenders'[k].senderId = last'.senderId
                  /\ k \in {last'.sessionKey, "agent:" \o last'.sessionKey,
                            last'.accountName,
                            "agent:" \o last'.accountName \o ":main"}]_vars

\* u2's link under its conversation has outlived the freshness window, the
\* account's link has since passed to u1
C25_Witness ==
    /\ "conv2" \in DOMAIN sessionSenders
    /\ "ops" \in DOMAIN sessionSenders
    /\ sessionSenders["conv2"].senderId = "u2"
    /\ sessionSenders["ops"].senderId = "u1"
    /\ sessionSenders["ops"].timestamp - sessionSenders["conv2"].timestamp
           >= 1800 * 1000

\* C26: a before_tool_call for an excluded tool leaves the link table, the
\* halt set, the pending calls and the last-seen session key as they were.
C26_ExcludedCallIsNoOp ==
    [][(Delivered /\ last'.op = "before_tool_call"
        /\ last'.toolName \in config.excludeTools)
           => UNCHANGED <<sessionSenders, stoppedSessions, pendingCalls,
                          lastSessionKey>>]_vars

\* C27: a result posted as a direct message goes to the recipient that the
\* session of its own tool call resolves to when the result arrives, whatever
\* before_tool_call came in between.
C27_ResultRoutedWithOwnSession ==
    (/\ last.op = "tool_result_persist"
     /\ last.at = now
     /\ last.route = "dm")
        => last.senderId =
               resolveSender(last.origin, getClient(last.origin).accountName)

\* C28: the session agent:ops:main resolved to u1 and u1 was then halted;
\* while u1 is halted every non-excluded before_tool_call of that session is
\* blocked, whatever time has passed and whoever else has written.
C28_HaltStaysEffective ==
    (/\ last.op = "before_tool_call"
     /\ last.sessionKey = "agent:ops:main"
     /\ last.toolName \notin config.excludeTools
     /\ "u1" \in stoppedSessions)
        => last.block

\* C29: a before_tool_call that returns a block starts no post, records no
\* pending call and lets no tool run.
C29_BlockedCallPostsNothing ==
    [][(Delivered /\ last'.op = "before_tool_call" /\ last'.block)
           => /\ inflight' = inflight
              /\ pendingCalls' = pendingCalls
              /\ running' = running
              /\ last'.route = undefined]_vars

\* a blocked call, with nothing in flight and nothing pending
C29_Witness ==
    /\ last.op = "before_tool_call"
    /\ last.block
    /\ last.senderId \in stoppedSessions
    /\ inflight = {}
    /\ pendingCalls = << >>

C31_AnonymousMessageChangesNothing ==
    [][(Delivered /\ last'.op = "message_received"
        /\ last'.senderId = undefined) =>
           /\ sessionSenders' = sessionSenders
           /\ stoppedSessions' = stoppedSessions]_vars

\* a message without recipient id arrived while u1 was halted and linked,
\* and u1 is still halted and linked
C31_Witness ==
    /\ last.op = "message_received"
    /\ last.senderId = undefined
    /\ last.sessionKey = "agent:ops:main"
    /\ last.content = "/unhalt"
    /\ "u1" \in stoppedSessions
    /\ "agent:ops:main" \in DOMAIN sessionSenders
    /\ sessionSenders["agent:ops:main"].senderId = "u1"

\* C32: the pending-call table changes only when the first post of a call
\* succeeds, and then holds an entry under that call's id; a handler's
\* arrival, a failed post and the answer to a fallback post leave it alone;
\* no key ever leaves it.
C32_PendingOnlyAfterFirstPost ==
    [][/\ \A id \in DOMAIN pendingCalls : id \in DOMAIN pendingCalls'
       /\ pendingCalls' # pendingCalls =>
              \E task \in inflight \ inflight' :
                  /\ task.kind = "call" /\ task.stage = "first"
                  /\ inflight' \subseteq inflight
                  /\ ~done'.threw
                  /\ task.toolName \notin excludedTools
                  /\ toolCallId(task.sessionKey, task.toolName, task.at)
                         \in DOMAIN pendingCalls'
       /\ (\E task \in inflight \ inflight' : task.stage # "first") =>
              pendingCalls' = pendingCalls]_vars

\* the first post of the latest call succeeded and the call is pending
C32_Witness ==
    /\ last.op = "before_tool_call"
    /\ ~last.block
    /\ inflight = {}
    /\ done.op = "call" /\ ~done.threw
    /\ toolCallId(last.sessionKey, last.toolName, last.at) \in DOMAIN pendingCalls

\* the registry key of the account whose token posts
AccountKeyOf(token) ==
    botAccounts[CHOOSE i \in 1..Len(botAccounts) :
                   /\ botAccounts[i][2].token = token
                   /\ \A j \in 1..(i - 1) : botAccounts[j][2].token # token][1]

\* C33: a tool call without a link under its own session key, not of a
\* background session, resolves to the fresh link recorded under the key of
\* the account whose token posts the call.
C33_FallbackKeyIsPostingAccount ==
    [][(/\ Delivered
        /\ last'.op = "before_tool_call"
        /\ last'.route # undefined \/ last'.block
        /\ last'.botToken # undefined
        /\ last'.sessionKey \notin DOMAIN sessionSenders
        /\ ~isSubagent(last'.sessionKey)
        /\ AccountKeyOf(last'.botToken) \in DOMAIN sessionSenders
        /\ now - sessionSenders[AccountKeyOf(last'.botToken)].timestamp
               < FreshWindow) =>
           last'.senderId =
               sessionSenders[AccountKeyOf(last'.botToken)].senderId]_vars

\* C34: when the halt command has replied that the agent is halted, the next
\* handler invocation, if it is a before_tool_call of the invoking
\* conversation for a tool that is not excluded, is blocked; a command
\* without sender id has every conversation as its own.
C34_HaltBlocksNextCall ==
    [][(/\ last.op = "halt"
        /\ \/ last.text = HaltText
           \/ /\ done.op = "halt" /\ done.text = HaltText
              /\ \A task \in inflight : task.kind # "halt"
        /\ Delivered
        /\ last'.op = "before_tool_call"
        /\ last'.toolName \notin excludedTools
        /\ \/ last.senderId = undefined
           \/ /\ last'.sessionKey \in DOMAIN sessionSenders
              /\ sessionSenders[last'.sessionKey].senderId = last.senderId) =>
           last'.block]_vars

\* C35: with the halt feature on, a before_tool_call starts a direct post only
\* to the recipient it resolved, and that recipient was not in the halt set
\* when the event arrived; a blocked call's recipient was.
C35_CheckedRecipientIsPostedRecipient ==
    [][(Delivered /\ last'.op = "before_tool_call"
        /\ config.enableHaltCommands) =>
           /\ \A task \in Started("call") :
                  task.dest # undefined =>
                      /\ task.dest = last'.senderId
                      /\ task.dest \notin stoppedSessions
           /\ last'.block => last'.senderId \in stoppedSessions]_vars

\* a call is posted directly to a recipient who is not halted while another
\* key is in the halt set
C35_Witness ==
    /\ config.enableHaltCommands
    /\ last.op = "before_tool_call"
    /\ last.route = "dm"
    /\ stoppedSessions # {}
    /\ last.senderId \notin stoppedSessions
    /\ \E task \in inflight :
           task.kind = "call" /\ task.stage = "first" /\ task.dest = last.senderId

\* C36: for every session key and account name, under the link table and
\* time of every reachable state, the resolver of before_tool_call and the
\* resolver of the result poster give the same recipient or both give none.
C36_ResolverCopiesAgree ==
    \A sessionKey \in ResolverSessionKeys \cup DOMAIN sessionSenders \cup {undefined} :
        \A accountName \in DOMAIN sessionSenders \cup {"ops", "default", "unknown", "none"} :
            resolveSender(sessionKey, accountName)
                = resolveResultSender(sessionKey, accountName)

\* a result of a foreground session resolved through the account link, while
\* a background session under the same table resolves none
C36_Witness ==
    /\ last.op = "tool_result_persist"
    /\ last.at = now
    /\ last.sessionKey = "agent:ops:chat"
    /\ last.sessionKey \notin DOMAIN sessionSenders
    /\ last.senderId = "u1"
    /\ resolveSender(last.sessionKey, last.accountName) = "u1"
    /\ resolveSender("agent:ops:cron:j1", last.accountName) = undefined

\* C37: getDmChannel, for every user and every answer of the backend: a cached
\* user gets the cached id with no request and no change of the cache; a
\* lookup without REST credentials or with a non-OK answer to either request
\* raises and leaves the cache as it was; a successful lookup returns the
\* backend's id and caches it for that user only.
C37_DmChannelCache ==
    \A u \in Users, meOk \in BOOLEAN, channelOk \in BOOLEAN, id \in ChannelIds :
        LET r == getDmChannel(mmClient, u, meOk, channelOk, id)
            cache == mmClient.dmChannelCache
            failed == ~hasRestApi(mmClient) \/ ~meOk \/ ~channelOk
        IN  /\ u \in DOMAIN cache =>
                   /\ ~r.threw /\ r.result = cache[u]
                   /\ r.requests = 0 /\ r.cache = cache
            /\ (u \notin DOMAIN cache /\ failed) =>
                   /\ r.threw /\ r.cache = cache
                   /\ ~hasRestApi(mmClient) => r.requests = 0
            /\ (u \notin DOMAIN cache /\ ~failed) =>
                   /\ ~r.threw /\ r.result = id /\ r.requests = 2
                   /\ DOMAIN r.cache = DOMAIN cache \cup {u}
                   /\ r.cache[u] = id
                   /\ \A k \in DOMAIN cache : r.cache[k] = cache[k]

\* u1 is cached and the latest lookup for u1 was answered from the cache
C37_Witness ==
    /\ mmClient.last.op = "getDmChannel"
    /\ mmClient.last.arg = "u1"
    /\ mmClient.last.requests = 0
    /\ ~mmClient.last.threw
    /\ "u1" \in DOMAIN mmClient.dmChannelCache
    /\ mmClient.last.result = mmClient.dmChannelCache["u1"]
    /\ "u2" \notin DOMAIN mmClient.dmChannelCache

====
